---- MODULE Spec2Model ----
(***************************************************************************)
(* Vote / answer-count / accepted-answer consistency of the Stackit Q&A    *)
(* forum.  The state is the content of the tables profiles, questions,     *)
(* answers and votes of the migration; every action is one request of a    *)
(* signed-in principal (auth.uid()) against the storage API, executed as   *)
(* one transaction: the row-level-security policies filter the statement,  *)
(* the table constraints are checked, and the AFTER ROW triggers run in    *)
(* the same transaction.  None of the three counter/flag trigger functions *)
(* is SECURITY DEFINER, so the UPDATE statements inside them run as the    *)
(* requesting principal and are themselves filtered by the UPDATE policies *)
(* of questions and answers.                                               *)
(***************************************************************************)
EXTENDS Integers, FiniteSets, Sequences, TLC

\* ---------------------------------------------------------------- bounds
MaxQuestions == 1
MaxAnswers == 2
MaxVotes == 2
\* counters are capped to -CounterBound .. CounterBound by the guards
CounterBound == 1
\* longest text typed into the tag input (the input allows 20 characters)
MaxLen == 2
\* addTag: formData.tags.length < 5
MaxTags == 5
\* most vote requests of one card kept in flight
MaxInFlight == 2
\* most successive clicks on one vote button followed on the open page
MaxClicks == 3

\* SQL NULL of the nullable columns votes.question_id / votes.answer_id
NULL == 0

Users == {"u1", "u2"}
QuestionIds == 1..(MaxQuestions + 1)
AnswerIds == 1..(MaxAnswers + 1)
\* one identifier more than rows, so that a fresh one always exists
VoteIds == 1..(MaxVotes + 1)
vote_type == {"upvote", "downvote"}
user_role == {"user", "admin"}

\* hist is the request log of the specifications that follow single requests:
\* the last request issued, with its arguments
\* page is the state of the one page or component the client shows
\* (QuestionDetail, the AskQuestion form, a QuestionCard); tx is the statement
\* in flight in the specification that follows the writes of one statement,
\* the calls in flight of a card, or the clicks counted on the open page
VARIABLES profiles, questions, answers, votes, last, hist, page, tx

vars == <<profiles, questions, answers, votes, last, hist, page, tx>>

\* a request against the storage API: the statement, auth.uid(), the target
\* columns and the value sent; was holds the target's <<upvote_count,
\* downvote_count>> before a deletion, for the requests that follow it
Request(op, uid, qid, aid, arg, was) ==
  [op |-> op, uid |-> uid, qid |-> qid, aid |-> aid, arg |-> arg, was |-> was]

\* the log before any request
NoRequest == Request("none", "", NULL, NULL, "", <<0, 0>>)

\* QuestionDetail before it is mounted: useState(null), useState([]),
\* useState({})
NoPage ==
  [open |-> FALSE, user |-> "", qid |-> NULL, answers |-> {},
   questionVote |-> "", answerVotes |-> <<>>]

\* no statement in flight
NoTx == [stage |-> "none"]

\* ------------------------------------------------------------ row shapes
\* CREATE TABLE public.questions: the defaults of a freshly inserted row
NewQuestion(uid) ==
  [user_id |-> uid, upvote_count |-> 0, downvote_count |-> 0,
   answer_count |-> 0, has_accepted_answer |-> FALSE]

\* CREATE TABLE public.answers: the defaults of a freshly inserted row
NewAnswer(uid, qid) ==
  [question_id |-> qid, user_id |-> uid, upvote_count |-> 0,
   downvote_count |-> 0, is_accepted |-> FALSE]

\* CREATE TABLE public.votes
NewVote(uid, qid, aid, vt) ==
  [user_id |-> uid, question_id |-> qid, answer_id |-> aid, vote_type |-> vt]

\* gen_random_uuid(): an identifier no live row of the table uses
FreshId(table, ids) == CHOOSE i \in ids \ DOMAIN table :
                          \A j \in ids \ DOMAIN table : i <= j

\* the table without the rows in gone
Without(table, gone) == [i \in DOMAIN table \ gone |-> table[i]]

\* the table with one more row
With(table, id, row) ==
  [i \in DOMAIN table \cup {id} |-> IF i = id THEN row ELSE table[i]]

\* what the storage API answers to a request: rows were written ("ok"), the
\* statement matched no row the policies let the caller touch ("norows"), or
\* a constraint aborted it ("error")
Statuses == {"ok", "norows", "error"}

\* ------------------------------------------------- row level security
\* POLICY "Users can update their own questions": USING (auth.uid() = user_id)
QuestionUpdatePolicy(uid, row) == uid = row.user_id

\* POLICY "Users can update their own answers": USING (auth.uid() = user_id)
AnswerUpdatePolicy(uid, row) == uid = row.user_id

\* the policy when every principal may delete
QuestionDeletePolicy_anyone(uid, row) == TRUE

\* POLICY "Question authors and admins can delete questions"
QuestionDeletePolicy(uid, row) ==
  uid = row.user_id \/ profiles[uid] = "admin"

\* POLICY "Answer authors and admins can delete answers"
AnswerDeletePolicy(uid, row) ==
  uid = row.user_id \/ profiles[uid] = "admin"

\* POLICY "Users can create their own votes": WITH CHECK on the inserted row
VoteInsertPolicy(uid, row) == uid = row.user_id

\* the policies when every principal may update and delete every vote
VotePolicy_anyone(uid, row) == TRUE

\* POLICIES "Users can update / delete their own votes"
VotePolicy(uid, row) == uid = row.user_id

\* ------------------------------------------------------ table constraints
\* the table without vote_target_check
vote_target_check_dropped(row) == TRUE

\* CONSTRAINT vote_target_check
vote_target_check(row) ==
  \/ row.question_id # NULL /\ row.answer_id = NULL
  \/ row.question_id = NULL /\ row.answer_id # NULL

\* the table without unique_question_vote
unique_question_vote_dropped(row, others) == TRUE

\* CONSTRAINT unique_question_vote UNIQUE (user_id, question_id): row against
\* the other rows of the table; rows whose question_id is NULL never collide
\* (NULLs are distinct in a UNIQUE index)
unique_question_vote(row, others) ==
  ~ \E i \in DOMAIN others :
      /\ row.question_id # NULL
      /\ others[i].user_id = row.user_id
      /\ others[i].question_id = row.question_id

\* the table without unique_answer_vote
unique_answer_vote_dropped(row, others) == TRUE

\* CONSTRAINT unique_answer_vote UNIQUE (user_id, answer_id)
unique_answer_vote(row, others) ==
  ~ \E i \in DOMAIN others :
      /\ row.answer_id # NULL
      /\ others[i].user_id = row.user_id
      /\ others[i].answer_id = row.answer_id

\* REFERENCES public.questions(id) / public.answers(id) of a votes row
VoteForeignKeys(row, qs, as) ==
  /\ row.question_id # NULL => row.question_id \in DOMAIN qs
  /\ row.answer_id # NULL => row.answer_id \in DOMAIN as

\* every constraint of public.votes a written row is checked against
VoteConstraints(row, others, qs, as) ==
  /\ vote_target_check(row)
  /\ VoteForeignKeys(row, qs, as)
  /\ unique_question_vote(row, others)
  /\ unique_answer_vote(row, others)

\* ------------------------------------------------------------- triggers
\* UPDATE public.questions SET <col> = <col> + d WHERE id = qid, issued
\* inside a trigger function by principal uid: only rows that pass the
\* UPDATE policy of questions are touched
BumpQuestion(uid, qs, qid, col, d) ==
  [q \in DOMAIN qs |->
     IF q = qid /\ QuestionUpdatePolicy(uid, qs[q])
       THEN [qs[q] EXCEPT ![col] = @ + d]
       ELSE qs[q]]

\* the same statement when the + 1 of the INSERT branch is not applied
BumpAnswer_increment_lost(uid, as, aid, col, d) ==
  [a \in DOMAIN as |->
     IF a = aid /\ AnswerUpdatePolicy(uid, as[a]) /\ d < 0
       THEN [as[a] EXCEPT ![col] = @ + d]
       ELSE as[a]]

\* UPDATE public.answers SET <col> = <col> + d WHERE id = aid, likewise
BumpAnswer(uid, as, aid, col, d) ==
  [a \in DOMAIN as |->
     IF a = aid /\ AnswerUpdatePolicy(uid, as[a])
       THEN [as[a] EXCEPT ![col] = @ + d]
       ELSE as[a]]

CounterOf(vt) == IF vt = "upvote" THEN "upvote_count" ELSE "downvote_count"

\* FUNCTION update_vote_counts(), fired AFTER INSERT OR UPDATE OR DELETE ON
\* votes FOR EACH ROW; the result is the pair of tables it leaves
update_vote_counts(uid, TG_OP, OLDrow, NEWrow, qs, as) ==
  CASE TG_OP = "INSERT" ->
         IF NEWrow.question_id # NULL
           THEN <<BumpQuestion(uid, qs, NEWrow.question_id, CounterOf(NEWrow.vote_type), 1), as>>
         ELSE IF NEWrow.answer_id # NULL
           THEN <<qs, BumpAnswer(uid, as, NEWrow.answer_id, CounterOf(NEWrow.vote_type), 1)>>
         ELSE <<qs, as>>
    [] TG_OP = "DELETE" ->
         IF OLDrow.question_id # NULL
           THEN <<BumpQuestion(uid, qs, OLDrow.question_id, CounterOf(OLDrow.vote_type), -1), as>>
         ELSE IF OLDrow.answer_id # NULL
           THEN <<qs, BumpAnswer(uid, as, OLDrow.answer_id, CounterOf(OLDrow.vote_type), -1)>>
         ELSE <<qs, as>>
    [] TG_OP = "UPDATE" ->
         IF OLDrow.question_id # NULL
           THEN <<BumpQuestion(uid,
                     BumpQuestion(uid, qs, OLDrow.question_id, CounterOf(OLDrow.vote_type), -1),
                     NEWrow.question_id, CounterOf(NEWrow.vote_type), 1), as>>
         ELSE IF OLDrow.answer_id # NULL
           THEN <<qs, BumpAnswer(uid,
                         BumpAnswer(uid, as, OLDrow.answer_id, CounterOf(OLDrow.vote_type), -1),
                         NEWrow.answer_id, CounterOf(NEWrow.vote_type), 1)>>
         ELSE <<qs, as>>

\* FUNCTION update_question_answer_count(), fired AFTER INSERT and AFTER
\* DELETE ON answers FOR EACH ROW
update_question_answer_count(uid, TG_OP, row, qs) ==
  CASE TG_OP = "INSERT" -> BumpQuestion(uid, qs, row.question_id, "answer_count", 1)
    [] TG_OP = "DELETE" -> BumpQuestion(uid, qs, row.question_id, "answer_count", -1)

\* UPDATE public.questions SET has_accepted_answer = val WHERE id = qid,
\* issued inside the trigger function by principal uid
SetHasAccepted(uid, qs, qid, val) ==
  [q \in DOMAIN qs |->
     IF q = qid /\ QuestionUpdatePolicy(uid, qs[q])
       THEN [qs[q] EXCEPT !.has_accepted_answer = val]
       ELSE qs[q]]

\* the ELSE branch of update_question_accepted_status() for the row with
\* identifier id that went from accepted to not accepted
UnacceptBranch(uid, id, qid, qs, as) ==
  IF ~ \E b \in DOMAIN as :
         as[b].question_id = qid /\ as[b].is_accepted /\ b # id
    THEN SetHasAccepted(uid, qs, qid, FALSE)
    ELSE qs

\* the trigger invocations of the rows that the sibling-clearing UPDATE
\* changed from accepted to not accepted, one after the other
RECURSIVE ClearedSiblings(_, _, _, _, _)
ClearedSiblings(uid, cleared, qid, qs, as) ==
  IF cleared = {} THEN qs
  ELSE LET b == CHOOSE x \in cleared : \A y \in cleared : x <= y
       IN ClearedSiblings(uid, cleared \ {b}, qid,
                          UnacceptBranch(uid, b, qid, qs, as), as)

\* the first write of the accept branch: UPDATE public.answers SET
\* is_accepted = false WHERE question_id = NEW.question_id AND id != NEW.id
\* by uid, with the trigger invocations of the rows it changed; the result is
\* the pair of tables
UnmarkOthers(uid, id, NEWrow, qs, as) ==
  LET hit == {b \in DOMAIN as :
                /\ as[b].question_id = NEWrow.question_id
                /\ b # id
                /\ AnswerUpdatePolicy(uid, as[b])}
      as1 == [b \in DOMAIN as |->
                IF b \in hit
                  THEN [as[b] EXCEPT !.is_accepted = FALSE]
                  ELSE as[b]]
      qs1 == ClearedSiblings(uid,
                {b \in hit : as[b].is_accepted},
                NEWrow.question_id, qs, as1)
  IN <<qs1, as1>>

\* the trigger function without its guard on the accepted column
AcceptedChanged_always(OLDrow, NEWrow) == TRUE

\* IF TG_OP = 'UPDATE' AND OLD.is_accepted != NEW.is_accepted
AcceptedChanged(OLDrow, NEWrow) == OLDrow.is_accepted # NEWrow.is_accepted

\* FUNCTION update_question_accepted_status(), fired AFTER UPDATE ON answers
\* FOR EACH ROW; as already holds the new row; the result is the pair of tables
update_question_accepted_status(uid, id, OLDrow, NEWrow, qs, as) ==
  IF AcceptedChanged(OLDrow, NEWrow)
    THEN IF NEWrow.is_accepted
           THEN LET c == UnmarkOthers(uid, id, NEWrow, qs, as)
                IN <<SetHasAccepted(uid, c[1], NEWrow.question_id, TRUE), c[2]>>
           ELSE <<UnacceptBranch(uid, id, NEWrow.question_id, qs, as), as>>
    ELSE <<qs, as>>

\* guard that keeps the counters of the model finite
InRange(qs, as) ==
  /\ \A q \in DOMAIN qs :
       /\ qs[q].upvote_count \in -CounterBound..CounterBound
       /\ qs[q].downvote_count \in -CounterBound..CounterBound
       /\ qs[q].answer_count \in -CounterBound..MaxAnswers
  /\ \A a \in DOMAIN as :
       /\ as[a].upvote_count \in -CounterBound..CounterBound
       /\ as[a].downvote_count \in -CounterBound..CounterBound

\* ------------------------------------------------------------------ Init
Init ==
  /\ profiles = [u \in Users |-> IF u = "u2" THEN "admin" ELSE "user"]
  /\ questions = <<>>
  /\ answers = <<>>
  /\ votes = <<>>
  /\ last = "ok"
  /\ hist = NoRequest
  /\ page = NoPage
  /\ tx = NoTx

\* ------------------------------------------------------------- questions
\* AskQuestion.handleSubmit: INSERT INTO questions (..., user_id) by uid
InsertQuestion(uid) ==
  /\ Cardinality(DOMAIN questions) < MaxQuestions
  /\ LET id == FreshId(questions, QuestionIds)
     IN /\ questions' = With(questions, id, NewQuestion(uid))
        /\ last' = "ok"
  /\ UNCHANGED <<profiles, answers, votes>>

\* votes without ON DELETE CASCADE on their target columns
CascadedVotes_none(vs, qids, aids) == {}

\* votes.question_id REFERENCES questions(id) ON DELETE CASCADE, votes.answer_id
\* REFERENCES answers(id) ON DELETE CASCADE: the rows of vs that go with the
\* questions qids and the answers aids
CascadedVotes(vs, qids, aids) ==
  {v \in DOMAIN vs : vs[v].question_id \in qids \/ vs[v].answer_id \in aids}

\* the update_vote_counts() invocations of the deleted vote rows ids, one
\* after the other
RECURSIVE VoteDeleteTriggers(_, _, _, _, _)
VoteDeleteTriggers(uid, ids, vs, qs, as) ==
  IF ids = {} THEN <<qs, as>>
  ELSE LET i == CHOOSE x \in ids : \A y \in ids : x <= y
           r == update_vote_counts(uid, "DELETE", vs[i], vs[i], qs, as)
       IN VoteDeleteTriggers(uid, ids \ {i}, vs, r[1], r[2])

\* the update_question_answer_count() invocations of the deleted answer
\* rows ids, one after the other
RECURSIVE AnswerDeleteTriggers(_, _, _, _)
AnswerDeleteTriggers(uid, ids, as, qs) ==
  IF ids = {} THEN qs
  ELSE LET a == CHOOSE x \in ids : \A y \in ids : x <= y
       IN AnswerDeleteTriggers(uid, ids \ {a}, as,
            update_question_answer_count(uid, "DELETE", as[a], qs))

\* QuestionCard.handleDelete: DELETE FROM questions WHERE id = qid by uid.
\* ON DELETE CASCADE removes the answers of the question and the votes on
\* the question and on those answers; the delete triggers of the cascaded
\* rows run after their target rows are gone
DeleteQuestion(uid, qid) ==
  /\ qid \in DOMAIN questions
  /\ IF QuestionDeletePolicy(uid, questions[qid])
       THEN LET goneA == {a \in DOMAIN answers : answers[a].question_id = qid}
                goneV == CascadedVotes(votes, {qid}, goneA)
                qs1 == AnswerDeleteTriggers(uid, goneA, answers,
                                            Without(questions, {qid}))
                r == VoteDeleteTriggers(uid, goneV, votes, qs1,
                                        Without(answers, goneA))
            IN /\ questions' = r[1]
               /\ answers' = r[2]
               /\ votes' = Without(votes, goneV)
               /\ last' = "ok"
       ELSE /\ UNCHANGED <<questions, answers, votes>>
            /\ last' = "norows"
  /\ UNCHANGED profiles

\* --------------------------------------------------------------- answers
\* QuestionDetail.handleSubmitAnswer: INSERT INTO answers (content,
\* question_id, user_id) by uid, then update_answer_count_on_insert
InsertAnswer(uid, qid) ==
  /\ qid \in DOMAIN questions
  /\ Cardinality(DOMAIN answers) < MaxAnswers
  /\ LET id == FreshId(answers, AnswerIds)
         row == NewAnswer(uid, qid)
     IN /\ answers' = With(answers, id, row)
        /\ questions' = update_question_answer_count(uid, "INSERT", row, questions)
        /\ last' = "ok"
  /\ InRange(questions', answers')
  /\ UNCHANGED <<profiles, votes>>

\* DELETE FROM answers WHERE id = aid by uid, then
\* update_answer_count_on_delete and the cascade to the votes on the answer
DeleteAnswer(uid, aid) ==
  /\ aid \in DOMAIN answers
  /\ IF AnswerDeletePolicy(uid, answers[aid])
       THEN LET goneV == CascadedVotes(votes, {}, {aid})
                qs1 == AnswerDeleteTriggers(uid, {aid}, answers, questions)
                r == VoteDeleteTriggers(uid, goneV, votes, qs1,
                                        Without(answers, {aid}))
            IN /\ questions' = r[1]
               /\ answers' = r[2]
               /\ votes' = Without(votes, goneV)
               /\ last' = "ok"
       ELSE /\ UNCHANGED <<questions, answers, votes>>
            /\ last' = "norows"
  /\ InRange(questions', answers')
  /\ UNCHANGED profiles

\* QuestionDetail.handleAcceptAnswer and its inverse: UPDATE answers SET
\* is_accepted = val WHERE id = aid by uid, then update_accepted_answer_trigger
UpdateAnswer(uid, aid, val) ==
  /\ aid \in DOMAIN answers
  /\ IF AnswerUpdatePolicy(uid, answers[aid])
       THEN LET as0 == [answers EXCEPT ![aid].is_accepted = val]
                r == update_question_accepted_status(uid, aid, answers[aid],
                                                     as0[aid], questions, as0)
            IN /\ questions' = r[1]
               /\ answers' = r[2]
               /\ last' = "ok"
       ELSE /\ UNCHANGED <<questions, answers>>
            /\ last' = "norows"
  /\ UNCHANGED <<profiles, votes>>

\* ----------------------------------------------------------------- votes
\* INSERT INTO votes (user_id, question_id, answer_id, vote_type) with the
\* fresh primary key id, by uid (WITH CHECK (auth.uid() = user_id) holds as
\* the clients always send their own user_id), then update_vote_counts();
\* a constraint violation aborts the statement with an error
InsertVoteRow(uid, id, row) ==
  IF VoteConstraints(row, votes, questions, answers)
    THEN LET r == update_vote_counts(uid, "INSERT", row, row, questions, answers)
         IN /\ Cardinality(DOMAIN votes) < MaxVotes
            /\ votes' = With(votes, id, row)
            /\ questions' = r[1]
            /\ answers' = r[2]
            /\ last' = "ok"
    ELSE /\ UNCHANGED <<questions, answers, votes>>
         /\ last' = "error"

\* UPDATE votes SET (question_id, answer_id, vote_type) = ... WHERE id = id
\* by uid, then update_vote_counts()
UpdateVoteRow(uid, id, row) ==
  IF VotePolicy(uid, votes[id])
    THEN IF VoteConstraints(row, Without(votes, {id}), questions, answers)
           THEN LET r == update_vote_counts(uid, "UPDATE", votes[id], row,
                                            questions, answers)
                IN /\ votes' = [votes EXCEPT ![id] = row]
                   /\ questions' = r[1]
                   /\ answers' = r[2]
                   /\ last' = "ok"
           ELSE /\ UNCHANGED <<questions, answers, votes>>
                /\ last' = "error"
    ELSE /\ UNCHANGED <<questions, answers, votes>>
         /\ last' = "norows"

\* the targets the pages offer a vote button for: a live question (answer_id
\* NULL) or a live answer (question_id NULL), as <<question_id, answer_id>>
VoteTargets ==
  {<<q, NULL>> : q \in DOMAIN questions} \cup {<<NULL, a>> : a \in DOMAIN answers}

\* supabase.from('votes').insert(row) by uid
InsertVote(uid, qid, aid, vt) ==
  /\ InsertVoteRow(uid, FreshId(votes, VoteIds),
                   NewVote(uid, qid, aid, vt))
  /\ InRange(questions', answers')
  /\ UNCHANGED profiles

\* the rows an upsert treats as the same row: .upsert(row) is called without
\* onConflict, so the arbiter is the primary key id
UpsertArbiter(id, row, vs) == {i \in DOMAIN vs : i = id}

\* handleVote, "Add or update vote": supabase.from('votes').upsert({user_id,
\* question_id, answer_id, vote_type}) by uid, that is INSERT ... ON CONFLICT
\* (id) DO UPDATE; the row carries no id, so id is the column default
UpsertVote(uid, qid, aid, vt) ==
  /\ LET id == FreshId(votes, VoteIds)
         row == NewVote(uid, qid, aid, vt)
     IN IF UpsertArbiter(id, row, votes) = {}
          THEN InsertVoteRow(uid, id, row)
          ELSE UpdateVoteRow(uid,
                 CHOOSE i \in UpsertArbiter(id, row, votes) : TRUE, row)
  /\ InRange(questions', answers')
  /\ UNCHANGED profiles

\* kind change: UPDATE votes SET vote_type = vt WHERE id = id by uid
UpdateVote(uid, id, vt) ==
  /\ id \in DOMAIN votes
  /\ UpdateVoteRow(uid, id, [votes[id] EXCEPT !.vote_type = vt])
  /\ InRange(questions', answers')
  /\ UNCHANGED profiles

\* handleVote, "Remove vote": supabase.from('votes').delete().eq('user_id',
\* user.id).eq(question_id | answer_id, target) by uid = user.id, then
\* update_vote_counts() for every deleted row
DeleteVote(uid, qid, aid) ==
  /\ LET hit == {v \in DOMAIN votes :
                   /\ votes[v].user_id = uid
                   /\ IF aid # NULL THEN votes[v].answer_id = aid
                                    ELSE votes[v].question_id = qid
                   /\ VotePolicy(uid, votes[v])}
         r == VoteDeleteTriggers(uid, hit, votes, questions, answers)
     IN /\ votes' = Without(votes, hit)
        /\ questions' = r[1]
        /\ answers' = r[2]
        /\ last' = IF hit = {} THEN "norows" ELSE "ok"
  /\ InRange(questions', answers')
  /\ UNCHANGED profiles

\* ------------------------------------------------------------------ Next
\* every request of every principal; the request log is not kept
Next ==
  \/ \E uid \in Users : InsertQuestion(uid) /\ UNCHANGED <<hist, page, tx>>
  \/ \E uid \in Users, qid \in DOMAIN questions :
       DeleteQuestion(uid, qid) /\ UNCHANGED <<hist, page, tx>>
  \/ \E uid \in Users, qid \in DOMAIN questions :
       InsertAnswer(uid, qid) /\ UNCHANGED <<hist, page, tx>>
  \/ \E uid \in Users, aid \in DOMAIN answers :
       DeleteAnswer(uid, aid) /\ UNCHANGED <<hist, page, tx>>
  \/ \E uid \in Users, aid \in DOMAIN answers, val \in BOOLEAN :
       UpdateAnswer(uid, aid, val) /\ UNCHANGED <<hist, page, tx>>
  \/ \E uid \in Users, t \in VoteTargets, vt \in vote_type :
       InsertVote(uid, t[1], t[2], vt) /\ UNCHANGED <<hist, page, tx>>
  \/ \E uid \in Users, t \in VoteTargets, vt \in vote_type :
       UpsertVote(uid, t[1], t[2], vt) /\ UNCHANGED <<hist, page, tx>>
  \/ \E uid \in Users, id \in DOMAIN votes, vt \in vote_type :
       UpdateVote(uid, id, vt) /\ UNCHANGED <<hist, page, tx>>
  \/ \E uid \in Users, t \in VoteTargets :
       DeleteVote(uid, t[1], t[2]) /\ UNCHANGED <<hist, page, tx>>

Spec == Init /\ [][Next]_vars


\* --------------------------------------------- the votes of one thread
\* the questions table once o has asked the first question
Asked(o) == With(<<>>, 1, NewQuestion(o))

\* the tables <<qs, as>> once w has answered question 1: InsertAnswer
AnsweredBy(qs, as, w) ==
  LET row == NewAnswer(w, 1)
  IN <<update_question_answer_count(w, "INSERT", row, qs),
       With(as, FreshId(as, AnswerIds), row)>>

\* the tables <<qs, as>> of a thread: o has asked question 1 and the authors
\* ws have answered it one after the other
RECURSIVE Thread(_, _)
Thread(o, ws) ==
  IF ws = <<>> THEN <<Asked(o), <<>>>>
  ELSE LET t == Thread(o, SubSeq(ws, 1, Len(ws) - 1))
       IN AnsweredBy(t[1], t[2], ws[Len(ws)])

\* a thread as QuestionDetail shows it: o has asked a question and w has
\* answered it; nobody has voted yet
InitVotes ==
  \E o \in Users, w \in Users :
    LET t == Thread(o, <<w>>)
    IN /\ profiles = [u \in Users |-> IF u = "u2" THEN "admin" ELSE "user"]
       /\ questions = t[1]
       /\ answers = t[2]
       /\ votes = <<>>
       /\ last = "ok"
       /\ hist = NoRequest
       /\ page = NoPage
       /\ tx = NoTx

\* <<upvote_count, downvote_count>> of the row that target t names
TargetCounters(t) ==
  IF t[2] # NULL
    THEN <<answers[t[2]].upvote_count, answers[t[2]].downvote_count>>
    ELSE <<questions[t[1]].upvote_count, questions[t[1]].downvote_count>>

\* supabase.from('votes').select('vote_type').eq('user_id', uid).eq(target)
\* .maybeSingle() on the table vs: the kind found, "" when there is no row
KindIn(vs, uid, t) ==
  LET held == {v \in DOMAIN vs : /\ vs[v].user_id = uid
                                 /\ vs[v].question_id = t[1]
                                 /\ vs[v].answer_id = t[2]}
  IN IF held = {} THEN "" ELSE vs[CHOOSE v \in held : TRUE].vote_type

\* the kind of the vote that uid holds on target t, "" when uid holds none
HeldKind(uid, t) == KindIn(votes, uid, t)

\* the log entry of a vote creation: a creation that follows the same
\* principal's deletion of a vote of the same kind on the same target is a
\* re-creation and keeps the counters logged by the deletion
CreationLogged(op, uid, t, vt) ==
  IF /\ hist.op = "delete_vote" /\ last = "ok"
     /\ hist.uid = uid /\ hist.qid = t[1] /\ hist.aid = t[2] /\ hist.arg = vt
    THEN Request("recreate_vote", uid, t[1], t[2], vt, hist.was)
    ELSE Request(op, uid, t[1], t[2], vt, <<0, 0>>)

\* the vote requests of the clients on that thread, each one logged
NextVotes ==
  \/ \E uid \in Users, t \in VoteTargets, vt \in vote_type :
       /\ InsertVote(uid, t[1], t[2], vt)
       /\ UNCHANGED <<page, tx>>
       /\ hist' = CreationLogged("insert_vote", uid, t, vt)
  \/ \E uid \in Users, t \in VoteTargets, vt \in vote_type :
       /\ UpsertVote(uid, t[1], t[2], vt)
       /\ UNCHANGED <<page, tx>>
       /\ hist' = CreationLogged("upsert_vote", uid, t, vt)
  \/ \E uid \in Users, id \in DOMAIN votes, vt \in vote_type :
       /\ UpdateVote(uid, id, vt)
       /\ UNCHANGED <<page, tx>>
       /\ hist' = Request("update_vote", uid, votes[id].question_id,
                          votes[id].answer_id, vt, <<0, 0>>)
  \/ \E uid \in Users, t \in VoteTargets :
       /\ DeleteVote(uid, t[1], t[2])
       /\ UNCHANGED <<page, tx>>
       /\ hist' = Request("delete_vote", uid, t[1], t[2], HeldKind(uid, t),
                          TargetCounters(t))

SpecVotes == InitVotes /\ [][NextVotes]_vars

\* ---------------------------------------- the accepted answer of a thread
\* a thread with MaxAnswers answers: o has asked a question and the authors
\* ws have answered it; none is accepted
InitAccept ==
  \E o \in Users, ws \in [1..MaxAnswers -> Users] :
    LET t == Thread(o, ws)
    IN /\ profiles = [u \in Users |-> IF u = "u2" THEN "admin" ELSE "user"]
       /\ questions = t[1]
       /\ answers = t[2]
       /\ votes = <<>>
       /\ last = "ok"
       /\ hist = NoRequest
       /\ page = NoPage
       /\ tx = NoTx

\* the log entry of UPDATE answers SET is_accepted = val WHERE id = aid: the
\* request re-asserts the value the row has, or changes it
AcceptLogged(uid, aid, val) ==
  Request(IF answers[aid].is_accepted = val
            THEN "reassert_accepted" ELSE "set_accepted",
          uid, answers[aid].question_id, aid,
          IF val THEN "true" ELSE "false", <<0, 0>>)

\* the requests on the answers of that thread, each one logged
NextAccept ==
  \/ \E uid \in Users, aid \in DOMAIN answers, val \in BOOLEAN :
       /\ UpdateAnswer(uid, aid, val)
       /\ UNCHANGED <<page, tx>>
       /\ hist' = AcceptLogged(uid, aid, val)
  \/ \E uid \in Users, aid \in DOMAIN answers :
       /\ DeleteAnswer(uid, aid)
       /\ UNCHANGED <<page, tx>>
       /\ hist' = Request("delete_answer", uid, answers[aid].question_id,
                          aid, "", <<0, 0>>)

SpecAccept == InitAccept /\ [][NextAccept]_vars

\* ------------------------------------- direct updates of aggregate columns
\* the aggregate columns of questions with the values a request may send
QuestionAggregates ==
  ({"upvote_count", "downvote_count", "answer_count"} \X (0..CounterBound))
    \cup ({"has_accepted_answer"} \X BOOLEAN)

\* the counter columns of answers with the values a request may send
AnswerAggregates == {"upvote_count", "downvote_count"} \X (0..CounterBound)

\* UPDATE questions SET <col> = val WHERE id = qid by uid, through the table
\* API: admitted by "Users can update their own questions" for every column;
\* update_questions_updated_at is the only trigger that fires
UpdateQuestion(uid, qid, col, val) ==
  /\ qid \in DOMAIN questions
  /\ IF QuestionUpdatePolicy(uid, questions[qid])
       THEN /\ questions' = [questions EXCEPT ![qid][col] = val]
            /\ last' = "ok"
       ELSE /\ UNCHANGED questions
            /\ last' = "norows"
  /\ UNCHANGED <<profiles, answers, votes>>

\* UPDATE answers SET <col> = val WHERE id = aid by uid for a counter column:
\* admitted by "Users can update their own answers";
\* update_question_accepted_status fires with is_accepted unchanged
UpdateAnswerCounter(uid, aid, col, val) ==
  /\ aid \in DOMAIN answers
  /\ IF AnswerUpdatePolicy(uid, answers[aid])
       THEN LET as0 == [answers EXCEPT ![aid][col] = val]
                r == update_question_accepted_status(uid, aid, answers[aid],
                                                     as0[aid], questions, as0)
            IN /\ questions' = r[1]
               /\ answers' = r[2]
               /\ last' = "ok"
       ELSE /\ UNCHANGED <<questions, answers>>
            /\ last' = "norows"
  /\ UNCHANGED <<profiles, votes>>

\* the requests of the table API on a thread: vote creation and plain
\* updates of the rows the caller owns, each one logged
NextDirect ==
  \/ \E uid \in Users, t \in VoteTargets, vt \in vote_type :
       /\ InsertVote(uid, t[1], t[2], vt)
       /\ UNCHANGED <<page, tx>>
       /\ hist' = Request("insert_vote", uid, t[1], t[2], "", <<0, 0>>)
  \/ \E uid \in Users, qid \in DOMAIN questions, c \in QuestionAggregates :
       /\ UpdateQuestion(uid, qid, c[1], c[2])
       /\ UNCHANGED <<page, tx>>
       /\ hist' = Request("update_question", uid, qid, NULL, "", <<0, 0>>)
  \/ \E uid \in Users, aid \in DOMAIN answers, c \in AnswerAggregates :
       /\ UpdateAnswerCounter(uid, aid, c[1], c[2])
       /\ UNCHANGED <<page, tx>>
       /\ hist' = Request("update_answer", uid, answers[aid].question_id,
                          aid, "", <<0, 0>>)

SpecDirect == InitVotes /\ [][NextDirect]_vars

\* ------------------------------------------------ the QuestionDetail page
\* fetchVotes of the render whose answers state is known, for the page p and
\* the votes table vs: questionVote is set only when a row is found, and
\* answerVotes is replaced only when the render knows at least one answer
fetchVotes(p, known, vs) ==
  LET qv == KindIn(vs, p.user, <<p.qid, NULL>>)
      voted == {a \in known : KindIn(vs, p.user, <<NULL, a>>) # ""}
  IN [p EXCEPT
        !.questionVote = IF qv # "" THEN qv ELSE @,
        !.answerVotes = IF known # {}
                          THEN [a \in voted |-> KindIn(vs, p.user, <<NULL, a>>)]
                          ELSE @]

\* fetchAnswers: the answers of the page's question in the table as
fetchAnswers(p, as) ==
  [p EXCEPT !.answers = {a \in DOMAIN as : as[a].question_id = p.qid}]

\* useEffect on [id, user]: uid opens the page of question qid; fetchAnswers
\* and fetchVotes start together, fetchVotes with the answers of the render
\* that ran the effect: none when the user is known at mount, the loaded
\* ones when the session resolves after the answers arrived
useEffect(uid, qid, loaded) ==
  /\ qid \in DOMAIN questions
  /\ LET p0 == [NoPage EXCEPT !.open = TRUE, !.user = uid, !.qid = qid]
         p1 == fetchAnswers(p0, answers)
     IN page' = fetchVotes(p1, IF loaded THEN p1.answers ELSE {}, votes)
  /\ UNCHANGED <<profiles, questions, answers, votes, last>>

\* the page is left: its state is dropped
Unmount ==
  /\ page.open
  /\ page' = NoPage
  /\ UNCHANGED <<profiles, questions, answers, votes, last>>

\* currentVote of handleVote for target t
currentVote(t) ==
  IF t[2] # NULL
    THEN IF t[2] \in DOMAIN page.answerVotes THEN page.answerVotes[t[2]] ELSE ""
    ELSE page.questionVote

\* QuestionDetail.handleVote(type, answerId): a deletion when the page's
\* vote has the requested kind, else an upsert; an error skips the refresh,
\* which otherwise runs fetchAnswers and the fetchVotes of the render that
\* created the handler
handleVote(vt, t) ==
  /\ page.open
  /\ \/ t = <<page.qid, NULL>>
     \/ t[1] = NULL /\ t[2] \in page.answers
  /\ IF currentVote(t) = vt
       THEN /\ DeleteVote(page.user, t[1], t[2])
            /\ hist' = Request("delete_vote", page.user, t[1], t[2], vt, <<0, 0>>)
       ELSE /\ UpsertVote(page.user, t[1], t[2], vt)
            /\ hist' = Request("upsert_vote", page.user, t[1], t[2], vt, <<0, 0>>)
  /\ page' = IF last' = "error"
               THEN page
               ELSE fetchVotes(fetchAnswers(page, answers'), page.answers, votes')

\* one user at a time on the page of the thread's question
NextPage ==
  \/ \E uid \in Users, qid \in DOMAIN questions, loaded \in BOOLEAN :
       /\ ~ page.open
       /\ useEffect(uid, qid, loaded)
       /\ hist' = NoRequest
       /\ UNCHANGED tx
  \/ Unmount /\ UNCHANGED <<hist, tx>>
  \/ \E vt \in vote_type, t \in VoteTargets :
       handleVote(vt, t) /\ UNCHANGED tx

SpecPage == InitVotes /\ [][NextPage]_vars

\* ------------------------------------------- the writes of one statement
\* the statement in flight once its row is written: the AFTER ... FOR EACH
\* ROW trigger on the table is still to run; before holds the tables at
\* the start of the statement
Pending(uid, table, TG_OP, id, OLDrow, NEWrow) ==
  [stage |-> "row", uid |-> uid, table |-> table, TG_OP |-> TG_OP, id |-> id,
   OLDrow |-> OLDrow, NEWrow |-> NEWrow,
   before |-> <<questions, answers, votes>>]

\* INSERT INTO votes by uid: the row is written
TxInsertVote(uid, t, vt) ==
  LET row == NewVote(uid, t[1], t[2], vt)
      id == FreshId(votes, VoteIds)
  IN /\ tx = NoTx
     /\ Cardinality(DOMAIN votes) < MaxVotes
     /\ VoteConstraints(row, votes, questions, answers)
     /\ votes' = With(votes, id, row)
     /\ tx' = Pending(uid, "votes", "INSERT", id, row, row)
     /\ UNCHANGED <<profiles, questions, answers, last>>

\* DELETE FROM votes WHERE id = v by its owner: the row is gone
TxDeleteVote(uid, v) ==
  /\ tx = NoTx
  /\ v \in DOMAIN votes
  /\ votes[v].user_id = uid
  /\ VotePolicy(uid, votes[v])
  /\ votes' = Without(votes, {v})
  /\ tx' = Pending(uid, "votes", "DELETE", v, votes[v], votes[v])
  /\ UNCHANGED <<profiles, questions, answers, last>>

\* INSERT INTO answers by uid: the row is written
TxInsertAnswer(uid, qid) ==
  LET row == NewAnswer(uid, qid)
      id == FreshId(answers, AnswerIds)
  IN /\ tx = NoTx
     /\ qid \in DOMAIN questions
     /\ Cardinality(DOMAIN answers) < MaxAnswers
     /\ answers' = With(answers, id, row)
     /\ tx' = Pending(uid, "answers", "INSERT", id, row, row)
     /\ UNCHANGED <<profiles, questions, votes, last>>

\* DELETE FROM answers WHERE id = aid by uid: the row and, by ON DELETE
\* CASCADE, the votes on it are gone
TxDeleteAnswer(uid, aid) ==
  /\ tx = NoTx
  /\ aid \in DOMAIN answers
  /\ AnswerDeletePolicy(uid, answers[aid])
  /\ answers' = Without(answers, {aid})
  /\ votes' = Without(votes, {v \in DOMAIN votes : votes[v].answer_id = aid})
  /\ tx' = Pending(uid, "answers", "DELETE", aid, answers[aid], answers[aid])
  /\ UNCHANGED <<profiles, questions, last>>

\* UPDATE answers SET is_accepted = val WHERE id = aid by uid: the row is
\* written
TxUpdateAnswer(uid, aid, val) ==
  /\ tx = NoTx
  /\ aid \in DOMAIN answers
  /\ AnswerUpdatePolicy(uid, answers[aid])
  /\ answers' = [answers EXCEPT ![aid].is_accepted = val]
  /\ tx' = Pending(uid, "answers", "UPDATE", aid, answers[aid],
                   [answers[aid] EXCEPT !.is_accepted = val])
  /\ UNCHANGED <<profiles, questions, votes, last>>

\* the statement in flight is an accept: its trigger takes the branch with
\* two writes
AcceptInFlight ==
  /\ tx.stage = "row"
  /\ tx.table = "answers"
  /\ tx.TG_OP = "UPDATE"
  /\ AcceptedChanged(tx.OLDrow, tx.NEWrow)
  /\ tx.NEWrow.is_accepted

\* update_question_accepted_status, first write of the accept branch
TxUnmarkOthers ==
  /\ AcceptInFlight
  /\ LET c == UnmarkOthers(tx.uid, tx.id, tx.NEWrow, questions, answers)
     IN /\ questions' = c[1]
        /\ answers' = c[2]
  /\ tx' = [tx EXCEPT !.stage = "others"]
  /\ hist' = NoRequest
  /\ UNCHANGED <<profiles, votes, last, page>>

\* the tables <<qs, as>> that the rest of the trigger of the statement in
\* flight leaves
TriggerResult ==
  CASE tx.stage = "others" ->
         <<SetHasAccepted(tx.uid, questions, tx.NEWrow.question_id, TRUE),
           answers>>
    [] tx.stage = "row" /\ tx.table = "votes" ->
         update_vote_counts(tx.uid, tx.TG_OP, tx.OLDrow, tx.NEWrow,
                            questions, answers)
    [] tx.stage = "row" /\ tx.table = "answers" /\ tx.TG_OP = "UPDATE" ->
         update_question_accepted_status(tx.uid, tx.id, tx.OLDrow, tx.NEWrow,
                                         questions, answers)
    [] tx.stage = "row" /\ tx.table = "answers" /\ tx.TG_OP # "UPDATE" ->
         <<update_question_answer_count(tx.uid, tx.TG_OP, tx.OLDrow, questions),
           answers>>

\* the trigger returns and the statement commits
TxCommit ==
  /\ tx.stage # "none"
  /\ ~ AcceptInFlight
  /\ questions' = TriggerResult[1]
  /\ answers' = TriggerResult[2]
  /\ InRange(questions', answers')
  /\ tx' = NoTx
  /\ last' = "ok"
  /\ hist' = NoRequest
  /\ UNCHANGED <<profiles, votes, page>>

\* a statement whose failed write is committed with the writes before it
TxFail_autocommit ==
  /\ tx.stage # "none"
  /\ tx' = NoTx
  /\ last' = "error"
  /\ hist' = Request("rolled_back", tx.uid, NULL, NULL, tx.stage, tx.before)
  /\ UNCHANGED <<profiles, questions, answers, votes, page>>

\* a write of the trigger fails: the statement aborts, and the row written
\* by the statement and the writes of its trigger are rolled back with it
TxFail ==
  /\ tx.stage # "none"
  /\ questions' = tx.before[1]
  /\ answers' = tx.before[2]
  /\ votes' = tx.before[3]
  /\ tx' = NoTx
  /\ last' = "error"
  /\ hist' = Request("rolled_back", tx.uid, NULL, NULL, tx.stage, tx.before)
  /\ UNCHANGED <<profiles, page>>

\* the statements on a thread, write by write, one statement at a time; the
\* votes are those on the question
NextTx ==
  \/ \E uid \in Users, q \in DOMAIN questions, vt \in vote_type :
       TxInsertVote(uid, <<q, NULL>>, vt) /\ hist' = NoRequest /\ UNCHANGED page
  \/ \E uid \in Users, v \in DOMAIN votes :
       TxDeleteVote(uid, v) /\ hist' = NoRequest /\ UNCHANGED page
  \/ \E uid \in Users, qid \in DOMAIN questions :
       TxInsertAnswer(uid, qid) /\ hist' = NoRequest /\ UNCHANGED page
  \/ \E uid \in Users, aid \in DOMAIN answers :
       TxDeleteAnswer(uid, aid) /\ hist' = NoRequest /\ UNCHANGED page
  \/ \E uid \in Users, aid \in DOMAIN answers, val \in BOOLEAN :
       TxUpdateAnswer(uid, aid, val) /\ hist' = NoRequest /\ UNCHANGED page
  \/ TxUnmarkOthers
  \/ TxCommit
  \/ TxFail

SpecTx == InitAccept /\ [][NextTx]_vars

\* ------------------------------------------------ deletions on a thread
\* the number of answers and of votes that go with question qid
CascadeSize(qid) ==
  LET goneA == {a \in DOMAIN answers : answers[a].question_id = qid}
  IN <<Cardinality(goneA), Cardinality(CascadedVotes(votes, {qid}, goneA))>>

\* votes are cast on a thread and every principal asks for the deletion of
\* every question and answer; the deletions are logged
NextDelete ==
  \/ \E uid \in Users, t \in VoteTargets, vt \in vote_type :
       /\ InsertVote(uid, t[1], t[2], vt)
       /\ hist' = NoRequest
       /\ UNCHANGED <<page, tx>>
  \/ \E uid \in Users, qid \in DOMAIN questions :
       /\ DeleteQuestion(uid, qid)
       /\ hist' = Request("delete_question", uid, qid, NULL, "",
                          CascadeSize(qid))
       /\ UNCHANGED <<page, tx>>
  \/ \E uid \in Users, aid \in DOMAIN answers :
       /\ DeleteAnswer(uid, aid)
       /\ hist' = Request("delete_answer", uid, answers[aid].question_id,
                          aid, "", <<0, 0>>)
       /\ UNCHANGED <<page, tx>>

SpecDelete == InitVotes /\ [][NextDelete]_vars

\* ------------------------------------- QuestionDetail: repeated vote clicks
\* n clicks on one vote button of the question since the page was opened
Clicks(n) == [stage |-> "clicks", n |-> n]

\* a user who holds no vote on the question opens its page and clicks one of
\* the two vote buttons of the question again and again, each click with
\* its request and the refresh that follows it
NextClicks ==
  \/ \E uid \in Users, qid \in DOMAIN questions, loaded \in BOOLEAN :
       /\ ~ page.open
       /\ HeldKind(uid, <<qid, NULL>>) = ""
       /\ useEffect(uid, qid, loaded)
       /\ hist' = NoRequest
       /\ tx' = Clicks(0)
  \/ Unmount /\ hist' = NoRequest /\ tx' = NoTx
  \/ \E vt \in vote_type :
       /\ page.open
       /\ hist.arg \in {"", vt}
       /\ tx.n < MaxClicks
       /\ handleVote(vt, <<page.qid, NULL>>)
       /\ tx' = Clicks(tx.n + 1)

SpecClicks == InitVotes /\ [][NextClicks]_vars

\* ------------------------------------------------- row-level vote requests
\* a thread of one author: u1 has asked a question and answered it; nobody
\* has voted yet
InitRows ==
  /\ InitVotes
  /\ \A q \in DOMAIN questions : questions[q].user_id = "u1"
  /\ \A a \in DOMAIN answers : answers[a].user_id = "u1"

\* the rows a request on the votes table can carry: any user_id and any pair
\* of target columns (set or NULL); the kind is not varied, as neither the
\* policies nor vote_target_check read vote_type
VoteRows ==
  [user_id : Users,
   question_id : {NULL} \cup DOMAIN questions,
   answer_id : {NULL} \cup DOMAIN answers,
   vote_type : {"upvote"}]

\* INSERT INTO votes VALUES (row) by uid: the WITH CHECK of the insert policy
\* on the new row, then the constraints and update_vote_counts()
InsertVoteAs(uid, row) ==
  /\ IF VoteInsertPolicy(uid, row)
       THEN InsertVoteRow(uid, FreshId(votes, VoteIds), row)
       ELSE /\ UNCHANGED <<questions, answers, votes>>
            /\ last' = "error"
  /\ InRange(questions', answers')
  /\ UNCHANGED profiles

\* UPDATE votes SET (user_id, question_id, answer_id, vote_type) = row
\* WHERE id = id by uid: USING selects the old row; the policy has no WITH
\* CHECK, so USING is also checked on the new row and fails the statement
UpdateVoteAs(uid, id, row) ==
  /\ id \in DOMAIN votes
  /\ IF VotePolicy(uid, votes[id]) /\ ~ VotePolicy(uid, row)
       THEN /\ UNCHANGED <<questions, answers, votes>>
            /\ last' = "error"
       ELSE UpdateVoteRow(uid, id, row)
  /\ InRange(questions', answers')
  /\ UNCHANGED profiles

\* DELETE FROM votes WHERE id = v by uid: USING selects the row, then
\* update_vote_counts()
DeleteVoteRow(uid, v) ==
  /\ v \in DOMAIN votes
  /\ IF VotePolicy(uid, votes[v])
       THEN LET r == VoteDeleteTriggers(uid, {v}, votes, questions, answers)
            IN /\ votes' = Without(votes, {v})
               /\ questions' = r[1]
               /\ answers' = r[2]
               /\ last' = "ok"
       ELSE /\ UNCHANGED <<questions, answers, votes>>
            /\ last' = "norows"
  /\ InRange(questions', answers')
  /\ UNCHANGED profiles

\* the requests on the votes table with every row they can carry, and the
\* deletions of the targets; the log keeps who asked, on which table row and
\* with which target columns, vote id and user_id
NextRows ==
  \/ \E uid \in Users, row \in VoteRows :
       /\ InsertVoteAs(uid, row)
       /\ hist' = Request("insert_vote", uid, row.question_id, row.answer_id,
                          row.vote_type, <<NULL, row.user_id>>)
       /\ UNCHANGED <<page, tx>>
  \/ \E uid \in Users, id \in DOMAIN votes, row \in VoteRows :
       /\ UpdateVoteAs(uid, id, row)
       /\ hist' = Request("update_vote", uid, row.question_id, row.answer_id,
                          row.vote_type, <<id, row.user_id>>)
       /\ UNCHANGED <<page, tx>>
  \/ \E uid \in Users, v \in DOMAIN votes :
       /\ DeleteVoteRow(uid, v)
       /\ hist' = Request("delete_vote", uid, votes[v].question_id,
                          votes[v].answer_id, votes[v].vote_type,
                          <<v, votes[v].user_id>>)
       /\ UNCHANGED <<page, tx>>
  \/ \E uid \in Users, qid \in DOMAIN questions :
       /\ DeleteQuestion(uid, qid)
       /\ hist' = Request("delete_question", uid, qid, NULL, "", NULL)
       /\ UNCHANGED <<page, tx>>
  \/ \E uid \in Users, aid \in DOMAIN answers :
       /\ DeleteAnswer(uid, aid)
       /\ hist' = Request("delete_answer", uid, answers[aid].question_id, aid,
                          "", NULL)
       /\ UNCHANGED <<page, tx>>

SpecRows == InitRows /\ [][NextRows]_vars

\* ------------------------------------------------ AskQuestion: the tag list
\* the characters typed into the tag input: a letter in both cases and the
\* blank; a string is the sequence of its characters
Chars == {"a", "A", " "}
Strings == UNION {[1..k -> Chars] : k \in 0..MaxLen}

\* String.prototype.trim(): the string without its leading and trailing
\* white space
RECURSIVE trim(_)
trim(str) ==
  IF str = <<>> THEN str
  ELSE IF Head(str) = " " THEN trim(Tail(str))
  ELSE IF str[Len(str)] = " " THEN trim(SubSeq(str, 1, Len(str) - 1))
  ELSE str

\* String.prototype.toLowerCase()
toLowerCase(str) ==
  [i \in 1..Len(str) |-> IF str[i] = "A" THEN "a" ELSE str[i]]

\* Array.prototype.includes(): some element is equal to str
includes(tags, str) == \E i \in 1..Len(tags) : tags[i] = str

\* Array.prototype.filter(tag => tag !== tagToRemove)
RECURSIVE filterNot(_, _)
filterNot(tags, tagToRemove) ==
  IF tags = <<>> THEN <<>>
  ELSE IF Head(tags) = tagToRemove THEN filterNot(Tail(tags), tagToRemove)
  ELSE <<Head(tags)>> \o filterNot(Tail(tags), tagToRemove)

\* the form as mounted: formData.tags = [], currentTag = ''
InitAsk ==
  /\ profiles = [u \in Users |-> IF u = "u2" THEN "admin" ELSE "user"]
  /\ questions = <<>>
  /\ answers = <<>>
  /\ votes = <<>>
  /\ last = "ok"
  /\ hist = NoRequest
  /\ page = [tags |-> <<>>, currentTag |-> <<>>]
  /\ tx = NoTx

\* onChange of the tag input, which is disabled once the list is full
setCurrentTag(str) ==
  /\ Len(page.tags) < MaxTags
  /\ page' = [page EXCEPT !.currentTag = str]

\* addTag, from the + button or the Enter key
addTag ==
  IF /\ trim(page.currentTag) # <<>>
     /\ ~ includes(page.tags, trim(page.currentTag))
     /\ Len(page.tags) < MaxTags
    THEN page' = [tags |-> Append(page.tags, toLowerCase(trim(page.currentTag))),
                  currentTag |-> <<>>]
    ELSE UNCHANGED page

\* removeTag(tagToRemove), from the x of a tag shown in the list
removeTag(tagToRemove) ==
  /\ includes(page.tags, tagToRemove)
  /\ page' = [page EXCEPT !.tags = filterNot(page.tags, tagToRemove)]

\* typing, adding and removing tags on the form; nothing is sent
NextAsk ==
  \/ \E str \in Strings :
       setCurrentTag(str)
       /\ UNCHANGED <<profiles, questions, answers, votes, last, hist, tx>>
  \/ addTag /\ UNCHANGED <<profiles, questions, answers, votes, last, hist, tx>>
  \/ \E i \in 1..Len(page.tags) :
       removeTag(page.tags[i])
       /\ UNCHANGED <<profiles, questions, answers, votes, last, hist, tx>>

SpecAsk == InitAsk /\ [][NextAsk]_vars

\* ------------------------------------------- QuestionCard: the vote buttons
\* a card of the question list as mounted for viewer ("" when nobody is
\* signed in): useState(false) for voting, the userVote prop as fetched; seen
\* is the value of voting in the closure of the handlers last rendered; tx
\* is the sequence of the card's storage calls that have not returned
InitCard ==
  \E o \in Users, viewer \in Users \cup {""} :
    /\ profiles = [u \in Users |-> IF u = "u2" THEN "admin" ELSE "user"]
    /\ questions = Asked(o)
    /\ answers = <<>>
    /\ votes = <<>>
    /\ last = "ok"
    /\ hist = NoRequest
    /\ page = [user |-> viewer, qid |-> 1, userVote |-> "",
               voting |-> FALSE, seen |-> FALSE]
    /\ tx = <<>>

\* handleVote without the voting flag in its guard
voteGuard_no_flag(user, voting) == user = ""

\* handleVote: if (!user || voting) return
voteGuard(user, voting) == user = "" \/ voting

\* handleVote(e, voteType) up to its await: the guard, setVoting(true), which
\* React renders before the next click is handled, and the storage call
\* issued: the deletion if userVote is of that kind, the upsert otherwise
cardClick(voteType) ==
  IF voteGuard(page.user, page.seen)
    THEN UNCHANGED <<page, tx>>
    ELSE /\ Len(tx) < MaxInFlight
         /\ page' = [page EXCEPT !.voting = TRUE, !.seen = TRUE]
         /\ tx' = Append(tx,
                     Request(IF page.userVote = voteType THEN "delete_vote"
                                                         ELSE "upsert_vote",
                             page.user, page.qid, NULL, voteType, <<0, 0>>))

\* handleVote after its await: the storage has run the oldest call, whatever
\* the reply (onVoteChange or the toast), finally setVoting(false)
cardReply ==
  /\ tx # <<>>
  /\ IF Head(tx).op = "delete_vote"
       THEN DeleteVote(Head(tx).uid, Head(tx).qid, NULL)
       ELSE UpsertVote(Head(tx).uid, Head(tx).qid, NULL, Head(tx).arg)
  /\ tx' = Tail(tx)
  /\ page' = [page EXCEPT !.voting = FALSE]

\* a render of the card: the handlers close over the current voting, and
\* the userVote prop is the one the list has fetched (fetchQuestions)
cardRender ==
  /\ page' = [page EXCEPT !.seen = page.voting,
                          !.userVote = HeldKind(page.user, <<page.qid, NULL>>)]
  /\ UNCHANGED <<profiles, questions, answers, votes, last, tx>>

\* the clicks on the vote buttons of one card, the replies of the storage
\* and the renders; the log keeps the last click with the number of calls
\* in flight before and after it
NextCard ==
  \/ \E voteType \in vote_type :
       /\ cardClick(voteType)
       /\ hist' = Request("click", page.user, page.qid, NULL, voteType,
                          <<Len(tx), Len(tx')>>)
       /\ UNCHANGED <<profiles, questions, answers, votes, last>>
  \/ cardReply /\ UNCHANGED hist
  \/ cardRender /\ UNCHANGED hist

SpecCard == InitCard /\ [][NextCard]_vars

\* ------------------------------------------------- two concurrent accepts
\* two transactions, each one UPDATE answers SET is_accepted = true WHERE
\* id = aid by uid under READ COMMITTED: a write takes the lock of its row
\* and waits while another transaction holds it; the writes of a transaction
\* (wa on answers, flag on the question) are seen by the others once it has
\* committed
LockTx == {1, 2}

\* the lock of a row
RowLock(table, id) == <<table, id>>
NoLock == <<>>

\* a transaction that has not begun
IdleTx ==
  [stage |-> "idle", uid |-> "", aid |-> NULL, held |-> {}, wa |-> <<>>,
   flag |-> FALSE, waits |-> NoLock]

\* a thread with MaxAnswers answers, nothing accepted, no transaction begun
InitLock ==
  \E o \in Users, ws \in [1..MaxAnswers -> Users] :
    LET t == Thread(o, ws)
    IN /\ profiles = [u \in Users |-> IF u = "u2" THEN "admin" ELSE "user"]
       /\ questions = t[1]
       /\ answers = t[2]
       /\ votes = <<>>
       /\ last = "ok"
       /\ hist = NoRequest
       /\ page = NoPage
       /\ tx = [t2 \in LockTx |-> IdleTx]

\* no transaction but t holds lock l
LockFree(t, l) == \A u \in LockTx \ {t} : l \notin tx[u].held

\* transaction t takes lock l and goes on as record got, or waits for it
TakeLock(t, l, got) ==
  IF LockFree(t, l)
    THEN tx' = [tx EXCEPT ![t] = [got EXCEPT !.held = @ \cup {l}]]
    ELSE tx' = [tx EXCEPT ![t].waits = l]

\* the rows of the trigger's UPDATE public.answers SET is_accepted = false
\* WHERE question_id = NEW.question_id AND id != NEW.id that the update
\* policy lets the caller of transaction t reach
SiblingRows(t) ==
  {b \in DOMAIN answers :
     /\ answers[b].question_id = answers[tx[t].aid].question_id
     /\ b # tx[t].aid
     /\ AnswerUpdatePolicy(tx[t].uid, answers[b])}

\* the statement of handleAcceptAnswer is sent by uid for answer aid; who is
\* served is decided by the update policy, the page's owner test is not part
\* of the storage API. The two transactions are about different answers
LockBegin(t, uid, aid) ==
  /\ tx[t].stage = "idle"
  /\ \A u \in LockTx \ {t} : tx[u].aid # aid
  /\ tx' = [tx EXCEPT ![t] = [IdleTx EXCEPT !.stage = "row", !.uid = uid,
                                            !.aid = aid]]
  /\ UNCHANGED <<profiles, questions, answers, votes, last, hist, page>>

\* the statement's own row: filtered by the policy (no row, nothing left to
\* do), or locked and written; the trigger goes on to the siblings when
\* OLD.is_accepted != NEW.is_accepted, OLD being the committed row
LockRow(t) ==
  /\ tx[t].stage = "row"
  /\ tx[t].waits = NoLock
  /\ LET aid == tx[t].aid
         NEWrow == [answers[aid] EXCEPT !.is_accepted = TRUE]
     IN IF ~ AnswerUpdatePolicy(tx[t].uid, answers[aid])
          THEN tx' = [tx EXCEPT ![t].stage = "done"]
          ELSE TakeLock(t, RowLock("answers", aid),
                 [tx[t] EXCEPT
                    !.wa = With(@, aid, TRUE),
                    !.stage = IF AcceptedChanged(answers[aid], NEWrow)
                                THEN "others" ELSE "done"])
  /\ UNCHANGED <<profiles, questions, answers, votes, last, hist, page>>

\* update_question_accepted_status, "Unmark other answers": the next sibling
\* row b of the scan is locked and written. The trigger that fires for b
\* changes nothing: it finds the answer of t accepted
LockSibling(t, b) ==
  /\ tx[t].stage = "others"
  /\ tx[t].waits = NoLock
  /\ b \in SiblingRows(t) \ DOMAIN tx[t].wa
  /\ TakeLock(t, RowLock("answers", b), [tx[t] EXCEPT !.wa = With(@, b, FALSE)])
  /\ UNCHANGED <<profiles, questions, answers, votes, last, hist, page>>

\* update_question_accepted_status, "Mark question as having accepted
\* answer", once the siblings are written: filtered by the policy of the
\* questions table, or locked and written
LockFlag(t) ==
  /\ tx[t].stage = "others"
  /\ tx[t].waits = NoLock
  /\ SiblingRows(t) \subseteq DOMAIN tx[t].wa
  /\ LET qid == answers[tx[t].aid].question_id
     IN IF ~ QuestionUpdatePolicy(tx[t].uid, questions[qid])
          THEN tx' = [tx EXCEPT ![t].stage = "done"]
          ELSE TakeLock(t, RowLock("questions", qid),
                        [tx[t] EXCEPT !.flag = TRUE, !.stage = "done"])
  /\ UNCHANGED <<profiles, questions, answers, votes, last, hist, page>>

\* the lock that t waits for has been released: t runs its step again
LockWake(t) ==
  /\ tx[t].waits # NoLock
  /\ LockFree(t, tx[t].waits)
  /\ tx' = [tx EXCEPT ![t].waits = NoLock]
  /\ UNCHANGED <<profiles, questions, answers, votes, last, hist, page>>

\* the statement returns and commits: its writes reach the tables and its
\* locks are released; the log keeps the last transaction committed
LockCommit(t) ==
  /\ tx[t].stage = "done"
  /\ answers' = [a \in DOMAIN answers |->
                   IF a \in DOMAIN tx[t].wa
                     THEN [answers[a] EXCEPT !.is_accepted = tx[t].wa[a]]
                     ELSE answers[a]]
  /\ questions' = IF tx[t].flag
                    THEN [questions EXCEPT
                            ![answers[tx[t].aid].question_id].has_accepted_answer = TRUE]
                    ELSE questions
  /\ tx' = [tx EXCEPT ![t].stage = "committed", ![t].held = {}]
  /\ last' = IF tx[t].wa = <<>> THEN "norows" ELSE "ok"
  /\ hist' = Request("commit", tx[t].uid, answers[tx[t].aid].question_id,
                     tx[t].aid, "", <<0, 0>>)
  /\ UNCHANGED <<profiles, votes, page>>

\* a server that never looks for deadlocks
WaitCycle_never(t) == FALSE

\* t waits for a lock of a transaction that waits for a lock of t
WaitCycle(t) ==
  /\ tx[t].waits # NoLock
  /\ \E u \in LockTx \ {t} :
       /\ tx[t].waits \in tx[u].held
       /\ tx[u].waits # NoLock
       /\ tx[u].waits \in tx[t].held

\* the deadlock detector of the server, run by a waiting transaction after
\* deadlock_timeout: t is aborted with "deadlock detected", its writes are
\* dropped and its locks released
LockDetect(t) ==
  /\ WaitCycle(t)
  /\ tx' = [tx EXCEPT ![t] = [IdleTx EXCEPT !.stage = "aborted",
                                            !.uid = tx[t].uid,
                                            !.aid = tx[t].aid]]
  /\ last' = "error"
  /\ UNCHANGED <<profiles, questions, answers, votes, hist, page>>

\* the steps the server takes for transaction t
LockStep(t) ==
  \/ LockRow(t)
  \/ \E b \in DOMAIN answers : LockSibling(t, b)
  \/ LockFlag(t)
  \/ LockWake(t)
  \/ LockCommit(t)
  \/ LockDetect(t)

NextLock ==
  \/ \E t \in LockTx, uid \in Users, aid \in DOMAIN answers :
       LockBegin(t, uid, aid)
  \/ \E t \in LockTx : LockStep(t)

\* the server keeps working on every transaction it has been sent
SpecLock ==
  InitLock /\ [][NextLock]_vars /\ \A t \in LockTx : WF_vars(LockStep(t))

\* ======================================================== properties
\* the shape of the four tables and of the reply
TypeOK ==
  /\ profiles \in [Users -> user_role]
  /\ DOMAIN questions \subseteq QuestionIds
  /\ \A q \in DOMAIN questions :
       /\ questions[q].user_id \in Users
       /\ questions[q].has_accepted_answer \in BOOLEAN
  /\ DOMAIN answers \subseteq AnswerIds
  /\ \A a \in DOMAIN answers :
       /\ answers[a].user_id \in Users
       /\ answers[a].question_id \in DOMAIN questions
       /\ answers[a].is_accepted \in BOOLEAN
  /\ DOMAIN votes \subseteq VoteIds
  /\ \A v \in DOMAIN votes :
       /\ votes[v].user_id \in Users
       /\ votes[v].vote_type \in vote_type
  /\ InRange(questions, answers)
  /\ last \in Statuses

\* the live Vote rows on question qid of kind vt
QuestionVotes(qid, vt) ==
  {v \in DOMAIN votes : votes[v].question_id = qid /\ votes[v].vote_type = vt}

\* the live Vote rows on answer aid of kind vt
AnswerVotes(aid, vt) ==
  {v \in DOMAIN votes : votes[v].answer_id = aid /\ votes[v].vote_type = vt}

\* the live Answers under question qid
AnswersOf(qid) == {a \in DOMAIN answers : answers[a].question_id = qid}

\* the live accepted Answers under question qid
AcceptedOf(qid) == {a \in AnswersOf(qid) : answers[a].is_accepted}

\* the row a vote target <<question_id, answer_id>> names, before and after
\* the step
TargetRow(t) == IF t[2] # NULL THEN answers[t[2]] ELSE questions[t[1]]
TargetRowAfter(t) == IF t[2] # NULL THEN answers'[t[2]] ELSE questions'[t[1]]

\* the live Vote rows of principal uid on target t, before and after the step
VotesOn(uid, t) ==
  {v \in DOMAIN votes : /\ votes[v].user_id = uid
                        /\ votes[v].question_id = t[1]
                        /\ votes[v].answer_id = t[2]}
VotesOnAfter(uid, t) ==
  {v \in DOMAIN votes' : /\ votes'[v].user_id = uid
                         /\ votes'[v].question_id = t[1]
                         /\ votes'[v].answer_id = t[2]}

\* C1: in every reachable state every live Question and Answer has
\* upvote_count equal to the number of live upvote rows targeting it and
\* downvote_count equal to the number of live downvote rows targeting it,
\* whoever cast the votes.
C1_CountersMatchVotes ==
  /\ \A q \in DOMAIN questions :
       /\ questions[q].upvote_count = Cardinality(QuestionVotes(q, "upvote"))
       /\ questions[q].downvote_count = Cardinality(QuestionVotes(q, "downvote"))
  /\ \A a \in DOMAIN answers :
       /\ answers[a].upvote_count = Cardinality(AnswerVotes(a, "upvote"))
       /\ answers[a].downvote_count = Cardinality(AnswerVotes(a, "downvote"))

\* C2: in every reachable state every Question has at most one live Answer
\* with is_accepted = true.
C2_AtMostOneAccepted ==
  \A q \in DOMAIN questions : Cardinality(AcceptedOf(q)) <= 1

\* C3: in every reachable state a live Question has has_accepted_answer =
\* true if and only if exactly one live Answer under it is accepted.
C3_HasAcceptedIffOneAccepted ==
  \A q \in DOMAIN questions :
    questions[q].has_accepted_answer <=> (Cardinality(AcceptedOf(q)) = 1)

\* C4: in every reachable state every live Question's answer_count equals the
\* number of live Answers referencing it, whoever wrote the answers.
C4_AnswerCountMatches ==
  \A q \in DOMAIN questions :
    questions[q].answer_count = Cardinality(AnswersOf(q))

\* C5: when a principal holding an upvote on a target requests a downvote on
\* it through the upsert branch of handleVote, afterwards the principal holds
\* exactly one vote on the target, of kind downvote, and the target's
\* upvote_count is 1 lower and its downvote_count 1 higher than before.
C5_UpsertSwitchesVote ==
  [][\A uid \in Users, t \in VoteTargets :
       ( /\ UpsertVote(uid, t[1], t[2], "downvote")
         /\ \E v \in VotesOn(uid, t) : votes[v].vote_type = "upvote" )
       => /\ last' = "ok"
          /\ Cardinality(VotesOnAfter(uid, t)) = 1
          /\ \A v \in VotesOnAfter(uid, t) : votes'[v].vote_type = "downvote"
          /\ TargetRowAfter(t).upvote_count = TargetRow(t).upvote_count - 1
          /\ TargetRowAfter(t).downvote_count = TargetRow(t).downvote_count + 1
    ]_vars

\* C6: a change of a Vote row's kind from K_old to K_new on the same target
\* lowers the target's K_old counter by 1 and raises its K_new counter by 1
\* in the one step that changes the row.
C6_KindChangeAdjustsBothCounters ==
  [][\A uid \in Users, id \in DOMAIN votes, vt \in vote_type :
       ( /\ UpdateVote(uid, id, vt)
         /\ id \in DOMAIN votes'
         /\ votes[id].vote_type # votes'[id].vote_type )
       => LET t == <<votes[id].question_id, votes[id].answer_id>>
              kold == CounterOf(votes[id].vote_type)
              knew == CounterOf(votes'[id].vote_type)
          IN /\ TargetRowAfter(t)[kold] = TargetRow(t)[kold] - 1
             /\ TargetRowAfter(t)[knew] = TargetRow(t)[knew] + 1
    ]_vars

\* C7: when Answer A of a Question is accepted and an update then sets
\* is_accepted = true on another Answer B of the same Question, afterwards A
\* is not accepted, B is accepted and the Question's has_accepted_answer is
\* true.
C7_LastAcceptWins ==
  [][\A uid \in Users, b \in DOMAIN answers :
       ( /\ UpdateAnswer(uid, b, TRUE)
         /\ AnswerUpdatePolicy(uid, answers[b])
         /\ AcceptedOf(answers[b].question_id) \ {b} # {} )
       => /\ answers'[b].is_accepted
          /\ \A a \in AcceptedOf(answers[b].question_id) \ {b} :
               ~ answers'[a].is_accepted
          /\ questions'[answers[b].question_id].has_accepted_answer
    ]_vars

\* C8: deleting an accepted Answer, when no other live Answer of its Question
\* is accepted, sets the Question's has_accepted_answer to false.
C8_DeleteAcceptedClearsFlag ==
  [][\A uid \in Users, a \in DOMAIN answers :
       ( /\ DeleteAnswer(uid, a)
         /\ a \notin DOMAIN answers'
         /\ AcceptedOf(answers[a].question_id) = {a} )
       => ~ questions'[answers[a].question_id].has_accepted_answer
    ]_vars

\* C9: changing is_accepted from true to false on the only accepted Answer of
\* a Question sets the Question's has_accepted_answer to false; if another
\* live Answer of the Question is still accepted, has_accepted_answer stays
\* true.
C9_UnacceptUpdatesFlag ==
  [][\A uid \in Users, a \in DOMAIN answers :
       ( /\ UpdateAnswer(uid, a, FALSE)
         /\ answers[a].is_accepted
         /\ ~ answers'[a].is_accepted )
       => LET q == answers[a].question_id
          IN /\ AcceptedOf(q) = {a} => ~ questions'[q].has_accepted_answer
             /\ (AcceptedOf(q) # {a} /\ questions[q].has_accepted_answer)
                  => questions'[q].has_accepted_answer
    ]_vars

\* C10: an accept request by the owner of a Question on any Answer under it
\* takes effect, and an is_accepted update requested by a principal who is
\* not the owner of the Question is refused and changes nothing.
C10_OnlyQuestionOwnerAccepts ==
  [][\A uid \in Users, a \in DOMAIN answers, val \in BOOLEAN :
       UpdateAnswer(uid, a, val)
       => IF uid = questions[answers[a].question_id].user_id
            THEN val => answers'[a].is_accepted
            ELSE /\ last' # "ok"
                 /\ UNCHANGED <<questions, answers, votes>>
    ]_vars

\* the target <<question_id, answer_id>> of the logged request
HistTarget == <<hist.qid, hist.aid>>

\* C11: in every reachable state a principal holds at most one live Vote on
\* a Question and at most one live Vote on an Answer.
C11_OneVotePerPrincipalAndTarget ==
  \A uid \in Users, t \in VoteTargets : Cardinality(VotesOn(uid, t)) <= 1

\* C11 witness: a principal who holds a vote on a target asked to create
\* another one on it and was refused
C11_Witness ==
  /\ hist.op \in {"insert_vote", "upsert_vote"}
  /\ last = "error"
  /\ Cardinality(VotesOn(hist.uid, HistTarget)) = 1

C13_CountersNonNegative ==
  /\ \A q \in DOMAIN questions :
       /\ questions[q].upvote_count >= 0
       /\ questions[q].downvote_count >= 0
       /\ questions[q].answer_count >= 0
  /\ \A a \in DOMAIN answers :
       /\ answers[a].upvote_count >= 0
       /\ answers[a].downvote_count >= 0

\* the principals who hold a live vote of kind vt on question qid
VotersOf(qid, vt) == {votes[v].user_id : v \in QuestionVotes(qid, vt)}

\* C15: once distinct principals have cast votes of mixed kinds on the same
\* Question, in whatever order the requests committed, its upvote_count is
\* the number of upvoters and its downvote_count the number of downvoters.
C15_NoLostIncrement ==
  \A q \in DOMAIN questions :
    (VotersOf(q, "upvote") # {} /\ VotersOf(q, "downvote") # {})
      => /\ questions[q].upvote_count = Cardinality(VotersOf(q, "upvote"))
         /\ questions[q].downvote_count = Cardinality(VotersOf(q, "downvote"))

\* C16: creating a Vote of kind K on target E raises E's counter for K by
\* exactly 1 and leaves E's other columns and every other Question and
\* Answer as they were.
C16_VoteCreationIncrementsCounter ==
  [][\A uid \in Users, t \in VoteTargets, vt \in vote_type :
       ( /\ InsertVote(uid, t[1], t[2], vt)
         /\ VotesOnAfter(uid, t) # VotesOn(uid, t) )
       => IF t[2] = NULL
            THEN /\ questions' = [questions EXCEPT ![t[1]][CounterOf(vt)] = @ + 1]
                 /\ answers' = answers
            ELSE /\ answers' = [answers EXCEPT ![t[2]][CounterOf(vt)] = @ + 1]
                 /\ questions' = questions
    ]_vars

\* C14: when a principal holding a vote of kind K on a target deletes it and
\* then creates a vote of kind K on the target again, the target's
\* upvote_count and downvote_count are what they were before the deletion.
C14_RoundTripRestoresCounters ==
  (hist.op = "recreate_vote" /\ last = "ok")
    => TargetCounters(HistTarget) = hist.was

\* C14 witness: a round trip on a target whose counters the votes of the
\* principal move
C14_Witness ==
  /\ hist.op = "recreate_vote"
  /\ last = "ok"
  /\ hist.was # <<0, 0>>
  /\ TargetRow(HistTarget).user_id = hist.uid
  /\ HeldKind(hist.uid, HistTarget) = hist.arg

\* C17: an update of an Answer that leaves is_accepted at the value it has
\* changes no sibling Answer's is_accepted and does not change the
\* Question's has_accepted_answer.
C17_RedundantAcceptIsNoOp ==
  [][\A uid \in Users, a \in DOMAIN answers, val \in BOOLEAN :
       ( /\ UpdateAnswer(uid, a, val)
         /\ answers[a].is_accepted = val )
       => /\ \A b \in DOMAIN answers \ {a} :
               answers'[b].is_accepted = answers[b].is_accepted
          /\ questions'[answers[a].question_id].has_accepted_answer
               = questions[answers[a].question_id].has_accepted_answer
    ]_vars

\* C17 witness: the author of an accepted Answer has set is_accepted = true
\* on it again while the Question's flag or a sibling disagreed with it
C17_Witness ==
  /\ hist.op = "reassert_accepted"
  /\ last = "ok"
  /\ hist.arg = "true"
  /\ hist.aid \in DOMAIN answers
  /\ \/ AcceptedOf(hist.qid) \ {hist.aid} # {}
     \/ ~ questions[hist.qid].has_accepted_answer

\* the step leaves the aggregate columns of every Question and Answer that
\* lives through it as they were
AggregatesKept ==
  /\ \A q \in DOMAIN questions \cap DOMAIN questions' :
       /\ questions'[q].upvote_count = questions[q].upvote_count
       /\ questions'[q].downvote_count = questions[q].downvote_count
       /\ questions'[q].answer_count = questions[q].answer_count
       /\ questions'[q].has_accepted_answer = questions[q].has_accepted_answer
  /\ \A a \in DOMAIN answers \cap DOMAIN answers' :
       /\ answers'[a].upvote_count = answers[a].upvote_count
       /\ answers'[a].downvote_count = answers[a].downvote_count

\* what the aggregates are derived from: the Vote rows, the live Answers and
\* their is_accepted flags
SourceRows == <<votes, [a \in DOMAIN answers |-> answers[a].is_accepted]>>

\* C19: no request that the policies admit sets upvote_count, downvote_count,
\* answer_count or has_accepted_answer directly: these columns change only in
\* a step that also changes a Vote row, the set of Answers or an is_accepted
\* flag.
C19_AggregatesOnlyDerived ==
  [][~ AggregatesKept => SourceRows' # SourceRows]_vars

\* C20: whenever the principal's live vote on a target of the page has the
\* kind requested, handleVote issues a Vote deletion and not an upsert, in
\* every state of the page, the first action after the load included.
C20_SameKindIssuesDeletion ==
  [][\A vt \in vote_type, t \in VoteTargets :
       ( /\ handleVote(vt, t)
         /\ HeldKind(page.user, t) = vt )
       => hist'.op = "delete_vote"
    ]_vars

OwnerOrAdmin(uid, row) == uid = row.user_id \/ profiles[uid] = "admin"

C23_NoDanglingReferences ==
  /\ \A a \in DOMAIN answers : answers[a].question_id \in DOMAIN questions
  /\ \A v \in DOMAIN votes :
       /\ votes[v].question_id # NULL => votes[v].question_id \in DOMAIN questions
       /\ votes[v].answer_id # NULL => votes[v].answer_id \in DOMAIN answers

\* C23 witness: a question was deleted together with answers and votes
C23_Witness ==
  /\ hist.op = "delete_question"
  /\ last = "ok"
  /\ hist.was[1] > 0
  /\ hist.was[2] > 0
  /\ questions = <<>>

\* the owner of the Vote row with id v, before the step if the row was there
VoterOf(v) ==
  IF v \in DOMAIN votes THEN votes[v].user_id ELSE votes'[v].user_id

\* the Vote rows a step creates, changes or removes
TouchedVotes ==
  {v \in DOMAIN votes \cup DOMAIN votes' :
     \/ v \notin DOMAIN votes
     \/ v \notin DOMAIN votes'
     \/ votes'[v] # votes[v]}

\* C22 as stated: a Vote row with user_id = p is created, updated or deleted
\* only by requests made by principal p; a request by any other principal
\* creates, changes or removes no Vote of p.
C22_OnlyVoterTouchesVote ==
  [][\A v \in TouchedVotes :
       /\ hist'.uid = VoterOf(v)
       /\ v \in DOMAIN votes' => votes'[v].user_id = hist'.uid]_vars

\* C22 amended: a request on the votes table made by a principal other than
\* p creates, changes or removes no Vote row with user_id = p; a Vote of p
\* goes away on another principal's request only with its target, by the
\* cascade of a question or answer deletion.
C22_VoteRequestsOnlyByVoter ==
  [][\A v \in TouchedVotes :
       IF hist'.op \in {"insert_vote", "update_vote", "delete_vote"}
         THEN /\ hist'.uid = VoterOf(v)
              /\ v \in DOMAIN votes' => votes'[v].user_id = hist'.uid
         ELSE /\ hist'.op \in {"delete_question", "delete_answer"}
              /\ v \notin DOMAIN votes'
              /\ v \in CascadedVotes(votes, DOMAIN questions \ DOMAIN questions',
                                      DOMAIN answers \ DOMAIN answers')]_vars

\* C22 witness: an update or deletion of a live Vote asked by a principal
\* who is not its voter has been answered and the Vote is still there
C22_Witness ==
  /\ hist.op \in {"update_vote", "delete_vote"}
  /\ hist.was[1] \in DOMAIN votes
  /\ votes[hist.was[1]].user_id # hist.uid
  /\ last = "norows"

\* C26: in every reachable state every Vote row has exactly one of
\* question_id and answer_id set, never both and never neither, also after
\* updates of an existing Vote row.
C26_ExactlyOneTarget ==
  \A v \in DOMAIN votes :
    (votes[v].question_id = NULL) # (votes[v].answer_id = NULL)

\* C26 witness: the voter's own update of a Vote to a row with both target
\* columns set, or with none, has been refused with an error
C26_Witness ==
  /\ hist.op = "update_vote"
  /\ (hist.qid = NULL) = (hist.aid = NULL)
  /\ hist.was[1] \in DOMAIN votes
  /\ votes[hist.was[1]].user_id = hist.uid
  /\ hist.was[2] = hist.uid
  /\ last = "error"

\* C28: every UPDATE of a Vote row that the constraints admit, also one that
\* moves the vote between a Question and an Answer, leaves the counters of
\* the old and of the new target equal to their live vote counts (here for a
\* voter who owns every target, from a state where the counters are equal to
\* the counts).
C28_MoveAdjustsBothTargets ==
  [][\A uid \in Users, id \in DOMAIN votes, row \in VoteRows :
       /\ UpdateVoteAs(uid, id, row)
       /\ last' = "ok"
       /\ \A q \in DOMAIN questions : questions[q].user_id = uid
       /\ \A a \in DOMAIN answers : answers[a].user_id = uid
       /\ C1_CountersMatchVotes
       => C1_CountersMatchVotes']_vars

\* C29: after any sequence of addTag and removeTag calls on the ask-question
\* form, with inputs of any letter case and surrounding white space, the
\* form's tag list contains no two equal tags.
C29_NoDuplicateTags ==
  \A i, j \in 1..Len(page.tags) : i # j => page.tags[i] # page.tags[j]

\* C30: for one question card at most one vote request is in flight at any
\* time: a vote click that arrives while an earlier vote request of the card
\* has not yet completed issues no storage call.
C30_OneRequestInFlight ==
  [][/\ Len(tx') <= 1
     /\ \A voteType \in vote_type :
          cardClick(voteType) /\ tx # <<>> => tx' = tx]_vars

\* C30 witness: a click has arrived while a request of the card was in
\* flight, and that request is still the only one
C30_Witness ==
  /\ hist.op = "click"
  /\ hist.was = <<1, 1>>
  /\ Len(tx) = 1
  /\ page.voting

\* C27: on the question detail page, from a state where the user holds no
\* vote on the question, after n successive completed clicks of the same
\* vote kind the user holds a vote of that kind iff n is odd (and none when
\* n is even), and no click has been answered with an error.
C27_ClicksToggleVote ==
  (page.open /\ tx.stage = "clicks" /\ tx.n > 0) =>
    /\ last # "error"
    /\ HeldKind(page.user, <<page.qid, NULL>>) =
         IF tx.n % 2 = 1 THEN hist.arg ELSE ""

C25_LastCommitterWins ==
  (\A t \in LockTx : tx[t].stage = "committed" /\ tx[t].wa # <<>>) =>
    /\ AcceptedOf(hist.qid) = {hist.aid}
    /\ questions[hist.qid].has_accepted_answer
====
